---- MODULE Spec2Model ----
(***************************************************************************)
(* FinanceQA failure-analysis lab.                                         *)
(*   src/labeling/label_failures.py : sampler + labeling batch (main)      *)
(*   src/app.py                      : Streamlit viewer (main)             *)
(* Three specifications share the variables below:                         *)
(*   Spec        the labeling batch, one step per external call            *)
(*   SpecSampler load_financeqa_sample as a function of (n, source)        *)
(*   SpecViewer  the viewer, one step per script run (rerun)               *)
(***************************************************************************)
EXTENDS Integers, Sequences, FiniteSets, TLC

\* ------------------------------------------------------------------ bounds
MaxSource == 2      \* records in the external question bank (labeling batch)
MaxBank == 3        \* records in the question bank (sampler alone)
MaxN == 3           \* largest target count handed to the sampler alone
MaxRows == 3        \* rows of the table the viewer loads

\* ------------------------------------------------------- program constants
N_EXAMPLES == 5

ERROR_LABELS ==
    << "CORRECT", "ARITHMETIC_ERROR", "ACCOUNTING_CONVENTION_ERROR",
       "MISSING_OR_WRONG_ASSUMPTION", "WRONG_METRIC_OR_CONCEPT",
       "CONTEXT_MISUSE_OR_HALLUCINATION", "NON_ANSWER_OR_GENERIC" >>

Range(s) == { s[k] : k \in 1..Len(s) }

ClosedLabelSet == Range(ERROR_LABELS)

QuestionTypes == { "basic", "assumption", "other" }

NoFile == [ exists |-> FALSE ]

\* what a previous run (or anything else) left at OUT_CSV
OldFile == [ exists |-> TRUE, header |-> << "old" >>, rows |-> << << "stale" >> >> ]

VARIABLES
    \* --- labeling batch
    api_key,        \* os.getenv("OPENAI_API_KEY"): "" when absent
    source,         \* the test split of the question bank, in bank order
    data_dir,       \* does the directory "data" exist
    out_csv,        \* content of OUT_CSV
    pc,             \* position of main()
    df,             \* the sample
    i,              \* 1-based position of the loop in df
    model_answer,   \* main's local of the current iteration
    records,        \* the accumulator
    calls,          \* every effect main has had on the outside, in order
    \* --- sampler alone
    s_n, s_bank, s_cols, s_out, s_pc,
    \* --- viewer
    csv,            \* what is at CSV_PATH: "missing", "zero_bytes" or "table"
    table,          \* error_label column of the stored table, in row order
    session,        \* st.session_state: has deep_index been set
    deep_index,     \* st.session_state.deep_index
    shown           \* what the last script run rendered

batchVars == << api_key, source, data_dir, out_csv, pc, df, i,
                model_answer, records, calls >>
samplerVars == << s_n, s_bank, s_cols, s_out, s_pc >>
viewerVars == << csv, table, session, deep_index, shown >>
vars == << batchVars, samplerVars, viewerVars >>

\* =========================================================================
\* src/labeling/label_failures.py
\* =========================================================================

\* ---- text: answers are tuples of characters, so that strip() is computed
Whitespace == { " ", "\n", "\t" }

RECURSIVE LStrip(_)
LStrip(s) ==
    IF s # << >> /\ Head(s) \in Whitespace THEN LStrip(Tail(s)) ELSE s

RECURSIVE RStrip(_)
RStrip(s) ==
    IF s # << >> /\ s[Len(s)] \in Whitespace
    THEN RStrip(SubSeq(s, 1, Len(s) - 1))
    ELSE s

\* str.strip()
Strip(s) == LStrip(RStrip(s))

\* ---- the sampler
\* df[mask]: the rows whose question_type is basic or assumption, in order
RECURSIVE FilterBasicAssumption(_)
FilterBasicAssumption(rows) ==
    IF rows = << >> THEN << >>
    ELSE IF Head(rows).question_type \in { "basic", "assumption" }
         THEN << Head(rows) >> \o FilterBasicAssumption(Tail(rows))
         ELSE FilterBasicAssumption(Tail(rows))

\* the orders in which a seeded draw can deliver k of the positions 1..len:
\* injective k-tuples over 1..len (the seed fixes one; which one is numpy's)
Draws(len, k) ==
    { p \in [1..k -> 1..len] : \A a, b \in 1..k : a # b => p[a] # p[b] }

\* DataFrame.sample(...).reset_index(drop=True) along the draw p
Take(rows, p) == [ k \in 1..Len(p) |-> rows[p[k]] ]

\* the mask is not applied
load_financeqa_sample_unfiltered(n, rows, has_column) ==
    LET size == IF Len(rows) <= n THEN Len(rows) ELSE n
    IN  { Take(rows, p) : p \in Draws(Len(rows), size) }

\* load_financeqa_sample(n) on a bank whose frame is `rows`; has_column is
\* "question_type" in df.columns.  The set of frames the call can return.
load_financeqa_sample(n, rows, has_column) ==
    LET filtered == IF has_column THEN FilterBasicAssumption(rows) ELSE rows
        size == IF Len(filtered) <= n THEN Len(filtered) ELSE n
    IN  { Take(filtered, p) : p \in Draws(Len(filtered), size) }

\* ---- the target responder
\* what client.chat.completions.create can do for the target model: it
\* raises, or answers with text (`answer` is the text without the white space
\* around it)
TargetOutcomes ==
    { [ kind |-> "raise", content |-> << >>, answer |-> << >> ],
      [ kind |-> "text",  content |-> << " ", "4", "2", "\n" >>,
        answer |-> << "4", "2" >> ] }

\* call_target_model: resp.choices[0].message.content.strip(), or the error
\* of the call
call_target_model(outcome) ==
    IF outcome.kind = "text"
    THEN [ raised |-> FALSE, value |-> Strip(outcome.content) ]
    ELSE [ raised |-> TRUE, value |-> << >> ]

\* a failed target call leaves a marker instead of the empty answer
TargetAnswerKeepsError(outcome) ==
    LET r == call_target_model(outcome)
    IN  IF r.raised THEN << "E", "R", "R" >> ELSE r.value

\* main's try/except around call_target_model
TargetAnswer(outcome) ==
    LET r == call_target_model(outcome)
    IN  IF r.raised THEN << >> ELSE r.value

\* ---- the judge responder
\* what client.chat.completions.create can do for the judge model; `says` is
\* the label the judge meant to give ("" when it gave none)
JudgeOutcomes ==
    { [ kind |-> "raise", msg |-> "", content |-> "", says |-> "" ],
      [ kind |-> "raise", msg |-> "Connection error.", content |-> "", says |-> "" ],
      [ kind |-> "content", msg |-> "", content |-> "", says |-> "" ],
      [ kind |-> "content", msg |-> "", content |-> "I think it is correct", says |-> "" ],
      [ kind |-> "content", msg |-> "",
        content |-> "{\"label\": \"CORRECT\", \"rationale\": \"matches\"}",
        says |-> "CORRECT" ],
      [ kind |-> "content", msg |-> "",
        content |-> "{\"label\": \"FOO\", \"rationale\": \"other\"}",
        says |-> "FOO" ],
      [ kind |-> "content", msg |-> "",
        content |-> "{\"rationale\": \"no label\"}", says |-> "" ] }

\* json.loads on the contents above
JsonLoads(content) ==
    CASE content = "{\"label\": \"CORRECT\", \"rationale\": \"matches\"}" ->
            [ ok |-> TRUE, data |-> [ label |-> "CORRECT", rationale |-> "matches" ] ]
      [] content = "{\"label\": \"FOO\", \"rationale\": \"other\"}" ->
            [ ok |-> TRUE, data |-> [ label |-> "FOO", rationale |-> "other" ] ]
      [] content = "{\"rationale\": \"no label\"}" ->
            [ ok |-> TRUE, data |-> [ rationale |-> "no label" ] ]
      [] OTHER ->
            [ ok |-> FALSE, err |-> "Expecting value: line 1 column 1 (char 0)" ]

\* dict.get(key, default)
Get(data, key, default) == IF key \in DOMAIN data THEN data[key] ELSE default

\* label not in ERROR_LABELS
NotInErrorLabels(label) == \A k \in 1..Len(ERROR_LABELS) : ERROR_LABELS[k] # label

\* the try/except of label_failure: the (label, rationale) before validation
ParseJudge(outcome) ==
    IF outcome.kind = "raise"
    THEN [ label |-> "UNKNOWN", rationale |-> outcome.msg ]
    ELSE IF outcome.content = ""
    THEN [ label |-> "UNKNOWN", rationale |-> "No content returned in JSON" ]
    ELSE LET parsed == JsonLoads(outcome.content)
         IN  IF ~parsed.ok
             THEN [ label |-> "UNKNOWN",
                    rationale |-> "JSON decode error: " \o parsed.err ]
             ELSE [ label |-> Get(parsed.data, "label", "UNKNOWN"),
                    rationale |-> Get(parsed.data, "rationale", "") ]

\* the parsed label is returned as it came
label_failure_unvalidated(outcome) == ParseJudge(outcome)

\* label_failure: parse, then coerce a label outside ERROR_LABELS to UNKNOWN
label_failure(outcome) ==
    LET r == ParseJudge(outcome)
    IN  [ label |-> IF NotInErrorLabels(r.label) THEN "UNKNOWN" ELSE r.label,
          rationale |-> r.rationale ]

\* ---- records and the table
\* the dict main builds, as its (key, value) pairs in insertion order
MakeRecord(row, answer, lab) ==
    << << "question", row.question >>,
       << "answer", row.answer >>,
       << "context", row.context >>,
       << "question_type", row.question_type >>,
       << "company", row.company >>,
       << "file_link", row.file_link >>,
       << "file_name", row.file_name >>,
       << "model_answer", answer >>,
       << "error_label", lab.label >>,
       << "error_rationale", lab.rationale >> >>

\* pd.DataFrame(records).to_csv(OUT_CSV, index=False): the columns are the
\* keys in the order the dicts hold them; no records, no columns
ToCsv(recs) ==
    [ exists |-> TRUE,
      header |-> IF recs = << >> THEN << >>
                 ELSE [ c \in 1..Len(recs[1]) |-> recs[1][c][1] ],
      rows |-> [ r \in 1..Len(recs) |->
                   [ c \in 1..Len(recs[r]) |-> recs[r][c][2] ] ] ]

\* a row of the question bank
BankRow(k, qtype) ==
    [ question |-> << "Q", k >>, answer |-> << "A", k >>, context |-> << "ctx", k >>,
      question_type |-> qtype, company |-> "ACME", file_link |-> "", file_name |-> "10-K" ]

Banks(max) ==
    UNION { { [ k \in 1..len |-> BankRow(k, t[k]) ] : t \in [1..len -> QuestionTypes] }
            : len \in 0..max }

BatchInit ==
    /\ api_key \in { "", "sk-test" }
    /\ source \in Banks(MaxSource)
    /\ \E fresh \in BOOLEAN :
          /\ data_dir = ~fresh
          /\ out_csv = IF fresh THEN NoFile ELSE OldFile
    /\ pc = "makedirs"
    /\ df = << >>
    /\ i = 1
    /\ model_answer = << >>
    /\ records = << >>
    /\ calls = << >>

\* os.makedirs("data", exist_ok=True)
Makedirs ==
    /\ pc = "makedirs"
    /\ data_dir' = TRUE
    /\ calls' = Append(calls, [ fn |-> "makedirs", created |-> ~data_dir ])
    /\ pc' = "get_client"
    /\ UNCHANGED << api_key, source, out_csv, df, i, model_answer, records >>
    /\ UNCHANGED << samplerVars, viewerVars >>

\* get_client(): RuntimeError when the key is unset or empty
get_client ==
    /\ pc = "get_client"
    /\ pc' = IF api_key = "" THEN "fatal" ELSE "load"
    /\ UNCHANGED << api_key, source, data_dir, out_csv, df, i, model_answer,
                    records, calls >>
    /\ UNCHANGED << samplerVars, viewerVars >>

\* df = load_financeqa_sample(N_EXAMPLES); the loop starts at its first row
LoadSample ==
    /\ pc = "load"
    /\ \E sample \in load_financeqa_sample(N_EXAMPLES, source, TRUE) :
          /\ df' = sample
          /\ pc' = IF sample = << >> THEN "write" ELSE "target"
    /\ i' = 1
    /\ calls' = Append(calls, [ fn |-> "load_dataset" ])
    /\ UNCHANGED << api_key, source, data_dir, out_csv, model_answer, records >>
    /\ UNCHANGED << samplerVars, viewerVars >>

\* lines 196-205: the target call of iteration i
CallTarget ==
    /\ pc = "target"
    /\ \E outcome \in TargetOutcomes :
          /\ model_answer' = TargetAnswer(outcome)
          /\ calls' = Append(calls, [ fn |-> "target", question |-> df[i].question,
                                      context |-> df[i].context, outcome |-> outcome ])
    /\ pc' = "judge"
    /\ UNCHANGED << api_key, source, data_dir, out_csv, df, i, records >>
    /\ UNCHANGED << samplerVars, viewerVars >>

\* a sample whose judge call raised is skipped
CallJudgeDropFailed ==
    /\ pc = "judge"
    /\ \E outcome \in JudgeOutcomes :
          /\ records' = IF outcome.kind = "raise" THEN records
                         ELSE Append(records,
                                MakeRecord(df[i], model_answer, label_failure(outcome)))
          /\ calls' = Append(calls, [ fn |-> "judge", question |-> df[i].question,
                                      truth |-> df[i].answer,
                                      model_answer |-> model_answer,
                                      outcome |-> outcome ])
    /\ i' = i + 1
    /\ pc' = IF i = Len(df) THEN "write" ELSE "target"
    /\ UNCHANGED << api_key, source, data_dir, out_csv, df, model_answer >>
    /\ UNCHANGED << samplerVars, viewerVars >>

\* the table is saved after every append
CallJudgeCheckpoint ==
    /\ pc = "judge"
    /\ \E outcome \in JudgeOutcomes :
          /\ records' = Append(records,
                               MakeRecord(df[i], model_answer, label_failure(outcome)))
          /\ calls' = Append(calls, [ fn |-> "judge", question |-> df[i].question,
                                      truth |-> df[i].answer,
                                      model_answer |-> model_answer,
                                      outcome |-> outcome ])
    /\ out_csv' = ToCsv(records')
    /\ i' = i + 1
    /\ pc' = IF i = Len(df) THEN "write" ELSE "target"
    /\ UNCHANGED << api_key, source, data_dir, df, model_answer >>
    /\ UNCHANGED << samplerVars, viewerVars >>

\* lines 207-227: the judge call of iteration i, and the append
CallJudge ==
    /\ pc = "judge"
    /\ \E outcome \in JudgeOutcomes :
          /\ records' = Append(records,
                               MakeRecord(df[i], model_answer, label_failure(outcome)))
          /\ calls' = Append(calls, [ fn |-> "judge", question |-> df[i].question,
                                      truth |-> df[i].answer,
                                      model_answer |-> model_answer,
                                      outcome |-> outcome ])
    /\ i' = i + 1
    /\ pc' = IF i = Len(df) THEN "write" ELSE "target"
    /\ UNCHANGED << api_key, source, data_dir, out_csv, df, model_answer >>
    /\ UNCHANGED << samplerVars, viewerVars >>

\* lines 230-235: the write, then the per-label summary, which indexes the
\* error_label column and fails with KeyError on a frame without columns
WriteCsv ==
    /\ pc = "write"
    /\ out_csv' = ToCsv(records)
    /\ calls' = Append(calls, [ fn |-> "to_csv" ])
    /\ pc' = IF records = << >> THEN "keyerror" ELSE "done"
    /\ UNCHANGED << api_key, source, data_dir, df, i, model_answer, records >>
    /\ UNCHANGED << samplerVars, viewerVars >>

\* the process is killed or interrupted while a call is outstanding
Interrupt ==
    /\ pc \in { "target", "judge" }
    /\ pc' = "interrupted"
    /\ UNCHANGED << api_key, source, data_dir, out_csv, df, i, model_answer,
                    records, calls >>
    /\ UNCHANGED << samplerVars, viewerVars >>

Next ==
    \/ Makedirs
    \/ get_client
    \/ LoadSample
    \/ CallTarget
    \/ CallJudge
    \/ WriteCsv
    \/ Interrupt

\* ---- the sampler on its own: one call with a target count and a bank
SamplerIdle ==
    /\ s_n = 0
    /\ s_bank = << >>
    /\ s_cols = TRUE
    /\ s_out = << >>
    /\ s_pc = "idle"

SamplerInit ==
    /\ s_n \in 0..MaxN
    /\ s_bank \in Banks(MaxBank)
    /\ s_cols \in BOOLEAN
    /\ s_out = << >>
    /\ s_pc = "call"

\* load_financeqa_sample(s_n)
SampleCall ==
    /\ s_pc = "call"
    /\ s_out' \in load_financeqa_sample(s_n, s_bank, s_cols)
    /\ s_pc' = "returned"
    /\ UNCHANGED << s_n, s_bank, s_cols >>
    /\ UNCHANGED << batchVars, viewerVars >>

\* =========================================================================
\* src/app.py
\* =========================================================================

\* the labels a stored table can hold
StoredLabels == ClosedLabelSet \cup { "UNKNOWN" }

\* (df["error_label"] == label).sum()
RECURSIVE CountLabel(_, _)
CountLabel(rows, label) ==
    IF rows = << >> THEN 0
    ELSE (IF Head(rows) = label THEN 1 ELSE 0) + CountLabel(Tail(rows), label)

\* df["error_label"].value_counts(): the labels present, each with its count
ValueCounts(rows) == [ l \in Range(rows) |-> CountLabel(rows, l) ]

\* CORRECT stays in contention
KeepCorrect(counts) == counts

\* error_counts.drop(labels=["CORRECT"], errors="ignore")
DropCorrect(counts) == [ l \in DOMAIN counts \ { "CORRECT" } |-> counts[l] ]

\* tmp.idxmax() if len(tmp) else "CORRECT": the labels it can return (ties are
\* broken by the order value_counts happens to give equal counts)
MostCommon(rows) ==
    LET tmp == DropCorrect(ValueCounts(rows))
    IN  IF DOMAIN tmp = { } THEN { "CORRECT" }
        ELSE { l \in DOMAIN tmp : \A m \in DOMAIN tmp : tmp[m] <= tmp[l] }

\* compute_metrics(df) with most_common resolved to mc; accuracy is the
\* quotient num/den (0 for an empty frame)
compute_metrics(rows, mc) ==
    LET total == Len(rows)
        correct == CountLabel(rows, "CORRECT")
    IN  [ total |-> total,
          accuracy |-> IF total # 0 THEN [ num |-> correct, den |-> total ]
                       ELSE [ num |-> 0, den |-> 1 ],
          error_counts |-> ValueCounts(rows),
          most_common |-> mc,
          failures |-> total - CountLabel(rows, "CORRECT") ]

NoMetrics == [ total |-> -1 ]

\* nothing rendered yet
Blank ==
    [ ran |-> FALSE, error |-> FALSE, exception |-> "", metrics |-> NoMetrics,
      buttons |-> FALSE, prev_disabled |-> TRUE, next_disabled |-> TRUE,
      selected |-> FALSE, idx |-> 0 ]

\* load_data(CSV_PATH): st.error and an empty frame for a missing file,
\* EmptyDataError from read_csv for a file without a header line
load_data(file, rows) ==
    IF file = "missing" THEN [ error |-> TRUE, exception |-> "", df |-> << >> ]
    ELSE IF file = "zero_bytes"
    THEN [ error |-> FALSE, exception |-> "EmptyDataError", df |-> << >> ]
    ELSE [ error |-> FALSE, exception |-> "", df |-> rows ]

\* lines 330-348 for a frame of R rows: the session value on entry (cur), the
\* button that was pressed; gives the disabled flags as rendered, the new
\* session value and the outcome of df.iloc[idx]
Navigate(R, cur, click) ==
    LET prev_disabled == cur <= 0
        after_prev == IF click = "prev" THEN cur - 1 ELSE cur
        next_disabled == after_prev >= R - 1
        after_next == IF click = "next" THEN after_prev + 1 ELSE after_prev
    IN  [ prev_disabled |-> prev_disabled,
          next_disabled |-> next_disabled,
          deep_index |-> after_next,
          exception |-> IF after_next >= R \/ after_next < -R
                        THEN "IndexError" ELSE "" ]

\* one run of main() with the button input `click`, most_common resolved to mc
Main(click, mc) ==
    LET loaded == load_data(csv, table)
    IN  IF loaded.exception # ""
        THEN /\ shown' = [ Blank EXCEPT !.ran = TRUE, !.exception = loaded.exception ]
             /\ UNCHANGED << session, deep_index >>
        ELSE IF loaded.df = << >>
        THEN /\ shown' = [ Blank EXCEPT !.ran = TRUE, !.error = loaded.error ]
             /\ UNCHANGED << session, deep_index >>
        ELSE LET R == Len(loaded.df)
                 cur == IF session THEN deep_index ELSE 0
                 nav == Navigate(R, cur, click)
             IN  /\ session' = TRUE
                 /\ deep_index' = nav.deep_index
                 /\ shown' = [ ran |-> TRUE, error |-> loaded.error,
                               exception |-> nav.exception,
                               metrics |-> compute_metrics(loaded.df, mc),
                               buttons |-> TRUE,
                               prev_disabled |-> nav.prev_disabled,
                               next_disabled |-> nav.next_disabled,
                               selected |-> TRUE,
                               idx |-> nav.deep_index ]

ViewerIdle ==
    /\ csv = "missing"
    /\ table = << >>
    /\ session = FALSE
    /\ deep_index = 0
    /\ shown = Blank

Tables(max) == UNION { [1..len -> StoredLabels] : len \in 0..max }

ViewerInit ==
    /\ csv \in { "missing", "zero_bytes", "table" }
    /\ table \in IF csv = "table" THEN Tables(MaxRows) ELSE { << >> }
    /\ session = FALSE
    /\ deep_index = 0
    /\ shown = Blank

\* the script runs with no button pressed (first load, or a rerun)
RunScript ==
    /\ \E mc \in MostCommon(table) : Main("none", mc)
    /\ UNCHANGED << csv, table >>
    /\ UNCHANGED << batchVars, samplerVars >>

\* the user presses Previous, which the last run rendered enabled
ClickPrevious ==
    /\ shown.buttons /\ ~shown.prev_disabled
    /\ \E mc \in MostCommon(table) : Main("prev", mc)
    /\ UNCHANGED << csv, table >>
    /\ UNCHANGED << batchVars, samplerVars >>

\* the user presses Next, which the last run rendered enabled
ClickNext ==
    /\ shown.buttons /\ ~shown.next_disabled
    /\ \E mc \in MostCommon(table) : Main("next", mc)
    /\ UNCHANGED << csv, table >>
    /\ UNCHANGED << batchVars, samplerVars >>

\* =========================================================================
\* specifications
\* =========================================================================
BatchIdle ==
    /\ api_key = ""
    /\ source = << >>
    /\ data_dir = FALSE
    /\ out_csv = NoFile
    /\ pc = "idle"
    /\ df = << >>
    /\ i = 1
    /\ model_answer = << >>
    /\ records = << >>
    /\ calls = << >>

Init == BatchInit /\ SamplerIdle /\ ViewerIdle

Spec == Init /\ [][Next]_vars

InitSampler == BatchIdle /\ SamplerInit /\ ViewerIdle

NextSampler == SampleCall

SpecSampler == InitSampler /\ [][NextSampler]_vars

InitViewer == BatchIdle /\ SamplerIdle /\ ViewerInit

NextViewer ==
    \/ RunScript
    \/ ClickPrevious
    \/ ClickNext

SpecViewer == InitViewer /\ [][NextViewer]_vars

\* =========================================================================
\* properties
\* =========================================================================
Min(a, b) == IF a <= b THEN a ELSE b

\* the value a record holds under a key
Field(rec, key) == (CHOOSE p \in Range(rec) : p[1] = key)[2]

\* the position of a column in a header
ColumnOf(header, name) == CHOOSE c \in 1..Len(header) : header[c] = name

IsTarget(c) == c.fn = "target"

IsJudge(c) == c.fn = "judge"

IsWrite(c) == c.fn = "to_csv"

TargetCalls == SelectSeq(calls, IsTarget)

JudgeCalls == SelectSeq(calls, IsJudge)

WriteCalls == SelectSeq(calls, IsWrite)

Finished == pc \in { "done", "keyerror" }

\* the column order of the persisted table
COLUMNS ==
    << "question", "answer", "context", "question_type", "company",
       "file_link", "file_name", "model_answer", "error_label",
       "error_rationale" >>

\* what the claim says is stored for a judge outcome
ExpectedLabel(outcome) ==
    IF outcome.kind = "content" /\ outcome.says \in ClosedLabelSet
    THEN outcome.says ELSE "UNKNOWN"

\* C1: every labeled record, accumulated or written, carries a label of the
\* closed set or UNKNOWN: the judge's label when that is in the closed set,
\* UNKNOWN when the judge gave another label, no label, empty or unparseable
\* content, or raised.
C1_LabelClosedOrUnknown ==
    /\ Len(JudgeCalls) = Len(records)
    /\ \A k \in 1..Len(records) :
          /\ Field(records[k], "error_label") \in ClosedLabelSet \cup { "UNKNOWN" }
          /\ Field(records[k], "error_label") = ExpectedLabel(JudgeCalls[k].outcome)
    /\ pc = "done" =>
          /\ Len(out_csv.rows) = Len(records)
          /\ \A k \in 1..Len(out_csv.rows) :
                out_csv.rows[k][ColumnOf(out_csv.header, "error_label")]
                   = ExpectedLabel(JudgeCalls[k].outcome)

C1_Witness ==
    /\ pc = "done"
    /\ \E k \in 1..Len(records) :
          /\ JudgeCalls[k].outcome.says = "FOO"
          /\ out_csv.rows[k][ColumnOf(out_csv.header, "error_label")] = "UNKNOWN"
    /\ \E k \in 1..Len(records) :
          /\ JudgeCalls[k].outcome.says = "CORRECT"
          /\ out_csv.rows[k][ColumnOf(out_csv.header, "error_label")] = "CORRECT"

\* C2: once the batch has passed the credential check and run to its end,
\* the rows accumulated and the rows written are as many as the sampled
\* records, whichever target and judge calls failed.
C2_RowCountEqualsSampleCount ==
    /\ pc = "write" => Len(records) = Len(df)
    /\ Finished => /\ Len(records) = Len(df)
                   /\ out_csv.exists
                   /\ Len(out_csv.rows) = Len(df)

C2_Witness ==
    /\ pc = "done"
    /\ Len(df) >= 2
    /\ Len(out_csv.rows) = Len(df)
    /\ \A k \in 1..Len(TargetCalls) : TargetCalls[k].outcome.kind = "raise"
    /\ \A k \in 1..Len(JudgeCalls) : JudgeCalls[k].outcome.kind = "raise"

\* the records of the bank the mask keeps
Allowed(bank, has_column) ==
    { k \in 1..Len(bank) :
        has_column => bank[k].question_type \in { "basic", "assumption" } }

\* C3 as stated: the sampler returns min(N, M) records for a bank of M records
C3_Original ==
    s_pc = "returned" => Len(s_out) = Min(s_n, Len(s_bank))

\* C3 amended: the sampler returns min(N, F) records, F being the number of
\* bank records whose question_type is basic or assumption (every record
\* when the bank has no question_type column), and returns only such records.
C3_SampleSizeOfFiltered ==
    s_pc = "returned" =>
       /\ Len(s_out) = Min(s_n, Cardinality(Allowed(s_bank, s_cols)))
       /\ \A k \in 1..Len(s_out) :
             \E j \in Allowed(s_bank, s_cols) : s_out[k] = s_bank[j]

C3_Witness ==
    /\ s_pc = "returned"
    /\ s_cols
    /\ \E k \in 1..Len(s_bank) : s_bank[k].question_type = "other"
    /\ s_n > 0
    /\ s_n < Cardinality(Allowed(s_bank, s_cols))
    /\ Len(s_out) = s_n

\* C4 as stated: a record whose judge call raised, with whatever message,
\* has the label UNKNOWN and a non-empty rationale
C4_Original ==
    \A k \in 1..Len(records) :
       JudgeCalls[k].outcome.kind = "raise" =>
          /\ Field(records[k], "error_label") = "UNKNOWN"
          /\ Field(records[k], "error_rationale") # ""

\* C5 as stated: whenever a record is selected for rendering, the session's
\* index is inside the table
C5_Original ==
    shown.selected => 0 <= shown.idx /\ shown.idx < Len(table)

\* something main did that the fatal path should not have done
IsWork(c) ==
    \/ c.fn \in { "load_dataset", "target", "judge", "to_csv" }
    \/ c.fn = "makedirs" /\ c.created

\* C6 as stated: when the credential is absent the run ends in the fatal
\* error with no sampler, target or judge call made, the output table
\* untouched and nothing written to the file system
C6_Original ==
    pc = "fatal" => /\ api_key = ""
                    /\ \A k \in 1..Len(calls) : ~IsWork(calls[k])

\* C7 as stated: a viewer run over an empty table (file missing, or present
\* with no records) renders the error state, computes no metrics, selects no
\* record and raises nothing
C7_Original ==
    shown.ran /\ table = << >> =>
       /\ shown.error
       /\ shown.exception = ""
       /\ shown.metrics = NoMetrics
       /\ ~shown.selected

\* the file a finished run leaves: the header and one row per record, each
\* in the column order
WrittenInOrder(file, recs) ==
    /\ file.exists
    /\ Len(file.rows) = Len(recs)
    /\ recs # << >> => file.header = COLUMNS
    /\ \A k \in 1..Len(recs) :
          /\ Len(file.rows[k]) = Len(COLUMNS)
          /\ \A c \in 1..Len(COLUMNS) :
                file.rows[k][c] = Field(recs[k], COLUMNS[c])

\* the destination changes only in the step that follows the last record
C8_WriteStep ==
    out_csv' # out_csv =>
       /\ pc = "write"
       /\ Len(records) = Len(df)
       /\ WriteCalls = << >>
       /\ WrittenInOrder(out_csv', records)

\* C8: the output table is written exactly once, after every sampled record
\* has been processed; until then (and in a run interrupted mid-batch) the
\* destination holds what it held before the run; the write replaces the
\* file with the rows in the column order.
C8_WrittenOnceAtEnd ==
    /\ [](Len(WriteCalls) <= 1)
    /\ [](Finished => Len(WriteCalls) = 1 /\ WrittenInOrder(out_csv, records))
    /\ [](~Finished => WriteCalls = << >> /\ out_csv \in { NoFile, OldFile })
    /\ [][C8_WriteStep]_vars

C8_Witness ==
    /\ pc = "interrupted"
    /\ Len(records) >= 1
    /\ Len(records) < Len(df)
    /\ out_csv = OldFile

\* C9: the records are processed one at a time in sample order: for the k-th
\* record the target is called, then the judge exactly once with that
\* record's question, true answer and the target's answer; a failed target
\* call gives the empty answer, the judge is still called with it, and the
\* batch goes on to the last record.
C9_TargetThenJudge ==
    /\ Len(JudgeCalls) = Len(records)
    /\ Len(TargetCalls) \in { Len(records), Len(records) + 1 }
    /\ Len(TargetCalls) = Len(records) + 1 => pc \in { "judge", "interrupted" }
    /\ \A k \in 1..Len(TargetCalls) :
          /\ IsTarget(calls[2 * k + 1])
          /\ calls[2 * k + 1].question = df[k].question
          /\ calls[2 * k + 1].context = df[k].context
    /\ \A k \in 1..Len(JudgeCalls) :
          LET t == calls[2 * k + 1]
              j == calls[2 * k + 2]
          IN  /\ IsJudge(j)
              /\ j.question = df[k].question
              /\ j.truth = df[k].answer
              /\ j.model_answer = t.outcome.answer
              /\ t.outcome.kind # "text" => j.model_answer = << >>
              /\ Field(records[k], "model_answer") = j.model_answer
              /\ Field(records[k], "question") = df[k].question
    /\ pc \in { "write", "done", "keyerror" } => Len(records) = Len(df)

C9_Witness ==
    /\ pc = "done"
    /\ Len(df) = 2
    /\ calls[3].outcome.kind = "raise"
    /\ calls[4].model_answer = << >>
    /\ calls[5].outcome.kind = "text"
    /\ calls[6].model_answer = << "4", "2" >>

\* the rows of the loaded table that carry a label
RowsWith(label) == { k \in 1..Len(table) : table[k] = label }

\* C10: for a non-empty table the most common error is a label of maximal
\* count among the labels other than CORRECT, it is CORRECT only when every
\* row is CORRECT, and count(CORRECT) + failures = total with accuracy equal
\* to count(CORRECT) / total.
C10_Metrics ==
    shown.metrics # NoMetrics =>
       LET m == shown.metrics
           correct == Cardinality(RowsWith("CORRECT"))
       IN  /\ m.total = Len(table)
           /\ m.total > 0
           /\ correct + m.failures = m.total
           /\ m.accuracy.num * m.total = correct * m.accuracy.den
           /\ m.accuracy.den > 0
           /\ (m.most_common = "CORRECT") <=> (correct = m.total)
           /\ correct < m.total =>
                 /\ RowsWith(m.most_common) # { }
                 /\ \A l \in StoredLabels \ { "CORRECT" } :
                       Cardinality(RowsWith(l)) <= Cardinality(RowsWith(m.most_common))

C10_Witness ==
    /\ shown.metrics # NoMetrics
    /\ Cardinality(RowsWith("CORRECT")) = 2
    /\ Cardinality(RowsWith("ARITHMETIC_ERROR")) = 1
    /\ shown.metrics.most_common = "ARITHMETIC_ERROR"
    /\ shown.metrics.accuracy = [ num |-> 2, den |-> 3 ]

====
